---- MODULE Spec2Model ----
(***************************************************************************)
(* Model of the office-schedule Remix application: the Schedule, Reports   *)
(* and Members routes and the app shell, over a store of three tables      *)
(* (profiles, schedules, reports).                                         *)
(*                                                                         *)
(* Conventions.                                                            *)
(*  - A nullable value is a sequence of length 0 (null / undefined) or 1.  *)
(*  - formData is a function from the names of the fields that were        *)
(*    submitted to their values; formData.get of an absent field is null.  *)
(*  - A timestamp is <<year, month, day, minute of the day>>; the store    *)
(*    compares timestamps and date literals as points in time.             *)
(*  - A SQL NULL in a text column is the value Null, which no filter       *)
(*    matches; a NULL in an id column is NullId.                           *)
(***************************************************************************)
EXTENDS Integers, Sequences, FiniteSets, TLC

VARIABLES profiles, schedules, reports, invites, req, resp, nav, tabs

storeVars == <<profiles, schedules, reports, invites>>
vars == <<profiles, schedules, reports, invites, req, resp, nav, tabs>>

(***************************************************************************)
(* Bounds of the model.                                                    *)
(***************************************************************************)
\* The rows the tables hold and the invitations sent, together.
MaxRows == 3
\* The worked minutes rendered range over -MaxMinutes..MaxMinutes.
MaxMinutes == 130

(***************************************************************************)
(* Values.                                                                 *)
(***************************************************************************)
Null == "NULL"
NullId == 0
NoUser == <<>>
UserIds == {"u1", "u2"}
Callers == {<<u>> : u \in UserIds} \cup {NoUser}

\* user?.id : the id of the authenticated user, undefined without one.
UserId(user) == IF user = NoUser THEN Null ELSE user[1]

\* formData.get(name)
FormGet(fd, name) == IF name \in DOMAIN fd THEN <<fd[name]>> ELSE <<>>

(***************************************************************************)
(* Time.                                                                   *)
(***************************************************************************)
IsLeap(y) == (y % 4 = 0 /\ y % 100 # 0) \/ y % 400 = 0

DaysInMonth(y, m) ==
    IF m = 2 THEN (IF IsLeap(y) THEN 29 ELSE 28)
    ELSE IF m \in {4, 6, 9, 11} THEN 30 ELSE 31

RECURSIVE DaysBeforeMonth(_, _)
DaysBeforeMonth(y, m) ==
    IF m <= 1 THEN 0 ELSE DaysBeforeMonth(y, m - 1) + DaysInMonth(y, m - 1)

RECURSIVE DaysBeforeYear(_)
DaysBeforeYear(y) ==
    IF y <= 2024 THEN 0
    ELSE DaysBeforeYear(y - 1) + (IF IsLeap(y - 1) THEN 366 ELSE 365)

\* Minutes from 2024-01-01T00:00 to the timestamp.
Minutes(ts) ==
    (DaysBeforeYear(ts[1]) + DaysBeforeMonth(ts[1], ts[2]) + (ts[3] - 1)) * 1440 + ts[4]

\* date-fns differenceInMinutes(parseISO(end), parseISO(start)): whole minutes,
\* truncated toward zero; timestamps here carry no seconds.
differenceInMinutes(end, start) == Minutes(end) - Minutes(start)

\* String(n).padStart(2, "0") as the two decimal digits of n (n < 100).
PadStart2(n) == <<n \div 10, n % 10>>

\* The date literal `${year}-${mm}-01` read by the store as a point in time.
DateLiteral(year, mm) == <<year, 10 * mm[1] + mm[2], 1, 0>>

(***************************************************************************)
(* Validation schemas (zod): the set of fields with an error.              *)
(***************************************************************************)
\* z.string(): the value is present (formData.get did not return null).
IsString(v) == Len(v) = 1
\* z.string().min(1)
IsNonEmptyString(v) == Len(v) = 1 /\ Len(v[1]) >= 1

scheduleSchema(fd) ==
    {f \in {"start_time", "end_time"} : ~IsString(FormGet(fd, f))}
    \cup {f \in {"location", "description"} : ~IsNonEmptyString(FormGet(fd, f))}

\* Mutant: the report schema with reflection as z.string(), without min(1).
reportSchemaLax(fd) ==
    {f \in {"actual_start_time", "actual_end_time", "break_time", "reflection"} :
        ~IsString(FormGet(fd, f))}
    \cup {f \in {"actual_description"} : ~IsNonEmptyString(FormGet(fd, f))}

reportSchema(fd) ==
    {f \in {"actual_start_time", "actual_end_time", "break_time"} :
        ~IsString(FormGet(fd, f))}
    \cup {f \in {"actual_description", "reflection"} :
        ~IsNonEmptyString(FormGet(fd, f))}

\* z.string().email(), on an address given as a sequence of characters drawn
\* from letters, "." and "@": local@domain where the address does not start
\* with ".", has no "..", the local part is non-empty and does not end in ".",
\* and the domain is one or more non-empty labels, each followed by ".", and a
\* last label of two letters or more.
IsEmail(s) ==
    /\ Cardinality({i \in 1..Len(s) : s[i] = "@"}) = 1
    /\ LET at == CHOOSE i \in 1..Len(s) : s[i] = "@"
           dots == {i \in (at + 1)..Len(s) : s[i] = "."}
       IN /\ at > 1
          /\ s[1] # "."
          /\ s[at - 1] # "."
          /\ \A i \in 1..(Len(s) - 1) : ~(s[i] = "." /\ s[i + 1] = ".")
          /\ dots # {}
          /\ at + 1 \notin dots
          /\ \A d \in dots : d <= Len(s) - 2

inviteSchema(fd) ==
    {f \in {"email"} : ~(IsString(FormGet(fd, f)) /\ IsEmail(FormGet(fd, f)[1]))}
    \cup {f \in {"full_name"} : ~IsNonEmptyString(FormGet(fd, f))}

(***************************************************************************)
(* The store: filters, ordering and joins of the persistence gateway.      *)
(***************************************************************************)
\* .eq(column, value): a NULL column and an undefined value match nothing.
Eq(column, value) == column # Null /\ value # Null /\ column = value

\* .order(column): the rows in ascending order of key, the function giving
\* each row's value of the column; rows with equal keys come in an order the
\* store chooses.
OrderBy(rows, key) ==
    {s \in [1..Cardinality(rows) -> rows] :
        /\ \A i, j \in DOMAIN s : i # j => s[i] # s[j]
        /\ \A i, j \in DOMAIN s : i < j => key[s[i]] <= key[s[j]]}

\* .single(): the row when exactly one matches, else null.
Single(rows) == IF Cardinality(rows) = 1 THEN <<CHOOSE r \in rows : TRUE>> ELSE <<>>

\* profiles.select("is_admin").eq("id", user?.id).single()
ProfileOf(uid) == Single({p \in profiles : Eq(p.id, uid)})

\* !profile?.is_admin
NotAdmin(profile) == profile = <<>> \/ ~profile[1].is_admin

\* The id the store gives a new row: rows of these tables are never deleted.
NewId(table) == Cardinality(table) + 1

\* The model stops inserting at MaxRows rows.
HasRoom == Cardinality(schedules) + Cardinality(reports) + Len(invites) < MaxRows

(***************************************************************************)
(* Responses.                                                              *)
(***************************************************************************)
Json(body) == [kind |-> "json", body |-> body]
Thrown(message) == [kind |-> "throw", body |-> [message |-> message]]
Success == Json([success |-> TRUE])
IsSuccess(r) == r.kind = "json" /\ DOMAIN r.body = {"success"}
IsFieldErrors(r) == r.kind = "json" /\ DOMAIN r.body = {"errors"}
IsError(r) == r.kind = "json" /\ DOMAIN r.body = {"error"}

Request(route, op, caller, fd, fault) ==
    [route |-> route, op |-> op, caller |-> caller, fd |-> fd, fault |-> fault]

(***************************************************************************)
(* Schedule route.                                                         *)
(***************************************************************************)
\* Mutant: the insert without the owner.
ScheduleRowNoOwner(caller, fd) ==
    [id |-> NewId(schedules), user_id |-> Null,
     start_time |-> fd.start_time, end_time |-> fd.end_time,
     location |-> fd.location, description |-> fd.description]

\* schedules.insert({user_id: user?.id, ...result.data})
ScheduleRow(caller, fd) ==
    [id |-> NewId(schedules), user_id |-> UserId(caller),
     start_time |-> fd.start_time, end_time |-> fd.end_time,
     location |-> fd.location, description |-> fd.description]

\* Mutant: the report insert without the link to the schedule.
ReportRowUnlinked(fd) ==
    [id |-> NewId(reports),
     schedule_id |-> NullId,
     actual_start_time |-> fd.actual_start_time,
     actual_end_time |-> fd.actual_end_time,
     break_time |-> fd.break_time,
     actual_description |-> fd.actual_description,
     reflection |-> fd.reflection]

\* reports.insert({schedule_id: scheduleId, ...result.data})
ReportRow(fd) ==
    [id |-> NewId(reports),
     schedule_id |-> IF "schedule_id" \in DOMAIN fd THEN fd.schedule_id ELSE NullId,
     actual_start_time |-> fd.actual_start_time,
     actual_end_time |-> fd.actual_end_time,
     break_time |-> fd.break_time,
     actual_description |-> fd.actual_description,
     reflection |-> fd.reflection]

\* Mutant: the create insert attempted again after an error, with success.
CreateIntentRetry(caller, fd, fault) ==
    LET errors == scheduleSchema(fd) IN
    IF errors # {}
    THEN /\ resp' = Json([errors |-> errors])
         /\ UNCHANGED storeVars
    ELSE /\ HasRoom
         /\ schedules' = schedules \cup {ScheduleRow(caller, fd)}
         /\ resp' = Success
         /\ UNCHANGED <<profiles, reports, invites>>

\* intent === "create"; fault: the insert reports an error.
CreateIntent(caller, fd, fault) ==
    LET errors == scheduleSchema(fd) IN
    IF errors # {}
    THEN /\ resp' = Json([errors |-> errors])
         /\ UNCHANGED storeVars
    ELSE IF fault
    THEN /\ resp' = Json([error |-> "schedule insert failed"])
         /\ UNCHANGED storeVars
    ELSE /\ HasRoom
         /\ schedules' = schedules \cup {ScheduleRow(caller, fd)}
         /\ resp' = Success
         /\ UNCHANGED <<profiles, reports, invites>>

\* Mutant: the report insert refused when the schedule has a report.
ReportIntentOnce(fd, fault) ==
    LET errors == reportSchema(fd) IN
    IF errors # {}
    THEN /\ resp' = Json([errors |-> errors])
         /\ UNCHANGED storeVars
    ELSE IF fault \/ \E r \in reports : r.schedule_id = ReportRow(fd).schedule_id
    THEN /\ resp' = Json([error |-> "report insert failed"])
         /\ UNCHANGED storeVars
    ELSE /\ HasRoom
         /\ reports' = reports \cup {ReportRow(fd)}
         /\ resp' = Success
         /\ UNCHANGED <<profiles, schedules, invites>>

\* intent === "report"; fault: the insert reports an error.
ReportIntent(fd, fault) ==
    LET errors == reportSchema(fd) IN
    IF errors # {}
    THEN /\ resp' = Json([errors |-> errors])
         /\ UNCHANGED storeVars
    ELSE IF fault
    THEN /\ resp' = Json([error |-> "report insert failed"])
         /\ UNCHANGED storeVars
    ELSE /\ HasRoom
         /\ reports' = reports \cup {ReportRow(fd)}
         /\ resp' = Success
         /\ UNCHANGED <<profiles, schedules, invites>>

\* Mutant: the Schedule action refusing an intent it does not handle.
ScheduleActionStrict(caller, fd, fault) ==
    /\ req' = Request("schedule", "action", caller, fd, fault)
    /\ IF FormGet(fd, "intent") = <<"create">> THEN CreateIntent(caller, fd, fault)
       ELSE IF FormGet(fd, "intent") = <<"report">> THEN ReportIntent(fd, fault)
       ELSE /\ resp' = Json([error |-> "unknown intent"])
            /\ UNCHANGED storeVars

\* The Schedule route's action.
ScheduleAction(caller, fd, fault) ==
    /\ req' = Request("schedule", "action", caller, fd, fault)
    /\ IF FormGet(fd, "intent") = <<"create">> THEN CreateIntent(caller, fd, fault)
       ELSE IF FormGet(fd, "intent") = <<"report">> THEN ReportIntent(fd, fault)
       ELSE /\ resp' = Success
            /\ UNCHANGED storeVars

\* select("*, reports(*)"): a schedule with its reports embedded (as a set:
\* the store gives the embedded rows in no stated order).
WithReports(s, reportRows) ==
    [id |-> s.id, user_id |-> s.user_id, start_time |-> s.start_time,
     end_time |-> s.end_time, location |-> s.location,
     description |-> s.description,
     reports |-> {r \in reportRows : r.schedule_id = s.id}]

StartTimeKey(s) == Minutes(s.start_time)

\* Mutant: the schedule query without the filter on user_id.
ScheduleReadAll(scheduleRows, reportRows, uid) ==
    LET rows == {WithReports(s, reportRows) : s \in scheduleRows}
    IN OrderBy(rows, [s \in rows |-> StartTimeKey(s)])

\* The results the schedule query can give for a user id, over given tables.
ScheduleReadOf(scheduleRows, reportRows, uid) ==
    LET rows == {WithReports(s, reportRows) :
                    s \in {x \in scheduleRows : Eq(x.user_id, uid)}}
    IN OrderBy(rows, [s \in rows |-> StartTimeKey(s)])

ScheduleRead(uid) == ScheduleReadOf(schedules, reports, uid)

\* The Schedule route's loader.
ScheduleLoader(caller) ==
    /\ req' = Request("schedule", "loader", caller, <<>>, FALSE)
    /\ \E data \in ScheduleRead(UserId(caller)) :
          resp' = Json([schedules |-> data])
    /\ UNCHANGED storeVars

(***************************************************************************)
(* Reports route.                                                          *)
(***************************************************************************)
\* schedules (*, profiles (full_name)) embedded in a report: each level is
\* null when the referenced row does not exist.
WithProfile(s) ==
    [id |-> s.id, user_id |-> s.user_id, start_time |-> s.start_time,
     end_time |-> s.end_time, location |-> s.location,
     description |-> s.description,
     profiles |-> LET p == {x \in profiles : Eq(x.id, s.user_id)}
                  IN IF p = {} THEN <<>>
                     ELSE <<[full_name |-> (CHOOSE x \in p : TRUE).full_name]>>]

WithSchedule(r) ==
    [id |-> r.id, schedule_id |-> r.schedule_id,
     actual_start_time |-> r.actual_start_time,
     actual_end_time |-> r.actual_end_time, break_time |-> r.break_time,
     actual_description |-> r.actual_description, reflection |-> r.reflection,
     schedules |-> LET s == {x \in schedules : x.id = r.schedule_id}
                   IN IF s = {} THEN <<>> ELSE <<WithProfile(CHOOSE x \in s : TRUE)>>]

\* .gte("actual_start_time", `${year}-${month.padStart(2, "0")}-01`)
WindowStart(year, month) == DateLiteral(year, PadStart2(month))

\* .lt("actual_start_time", `${year}-${Number(month) + 1 === 13 ? "01" :
\*     (Number(month) + 1).toString().padStart(2, "0")}-01`)
WindowEnd(year, month) ==
    DateLiteral(year, IF month + 1 = 13 THEN <<0, 1>> ELSE PadStart2(month + 1))

ActualStartKey(r) == Minutes(r.actual_start_time)

\* The results the reports query can give for a year and a month.
ReportsRead(year, month) ==
    LET rows == {WithSchedule(r) :
                    r \in {x \in reports :
                        /\ ActualStartKey(x) >= Minutes(WindowStart(year, month))
                        /\ ActualStartKey(x) < Minutes(WindowEnd(year, month))}}
    IN OrderBy(rows, [r \in rows |-> ActualStartKey(r)])

\* The reduce of the Reports component: the groups by user id, or a TypeError
\* on reading a property of null.
TypeError == [crashed |-> TRUE, groups |-> <<>>]

workMinutes(report) ==
    differenceInMinutes(report.actual_end_time, report.actual_start_time)
        - report.break_time

RECURSIVE reportsByUserFrom(_, _, _)
reportsByUserFrom(data, i, acc) ==
    IF i > Len(data) THEN [crashed |-> FALSE, groups |-> acc]
    ELSE LET report == data[i] IN
         IF report.schedules = <<>> THEN TypeError
         ELSE LET userId == report.schedules[1].user_id
                  isNew == userId \notin DOMAIN acc
              IN IF isNew /\ report.schedules[1].profiles = <<>> THEN TypeError
                 ELSE LET acc1 ==
                            IF isNew
                            THEN acc @@ (userId :>
                                   [userName |-> report.schedules[1].profiles[1].full_name,
                                    reports |-> <<>>,
                                    totalWorkMinutes |-> 0])
                            ELSE acc
                      IN reportsByUserFrom(data, i + 1,
                           [acc1 EXCEPT ![userId] =
                              [userName |-> @.userName,
                               reports |-> Append(@.reports, report),
                               totalWorkMinutes |-> @.totalWorkMinutes + workMinutes(report)]])

reportsByUser(data) == reportsByUserFrom(data, 1, <<>>)

\* The Reports route's loader and the aggregation of the page it renders;
\* today: the year and month new Date() gives.
ReportsLoader(caller, query, today) ==
    /\ req' = Request("reports", "loader", caller, query, FALSE)
    /\ IF NotAdmin(ProfileOf(UserId(caller)))
       THEN resp' = Thrown("admin only")
       ELSE LET year == IF FormGet(query, "year") = <<>> THEN today[1] ELSE query.year
                month == IF FormGet(query, "month") = <<>> THEN today[2] ELSE query.month
            IN \E data \in ReportsRead(year, month) :
                  resp' = [kind |-> "json",
                           body |-> [reports |-> data, year |-> year, month |-> month],
                           page |-> reportsByUser(data)]
    /\ UNCHANGED storeVars

(***************************************************************************)
(* Members route.                                                          *)
(***************************************************************************)
\* intent === "invite"; fault: signInWithOtp reports an error.
InviteIntent(fd, fault) ==
    LET errors == inviteSchema(fd) IN
    IF errors # {}
    THEN /\ resp' = Json([errors |-> errors])
         /\ UNCHANGED storeVars
    ELSE IF fault
    THEN /\ resp' = Json([error |-> "invite failed"])
         /\ UNCHANGED storeVars
    ELSE /\ HasRoom
         /\ invites' = Append(invites, [email |-> fd.email, full_name |-> fd.full_name])
         /\ resp' = Success
         /\ UNCHANGED <<profiles, schedules, reports>>

\* Mutant: the delete cascading to the schedules of the deleted profile.
DeleteIntentCascade(fd, fault) ==
    LET userId == IF "user_id" \in DOMAIN fd THEN fd.user_id ELSE Null IN
    IF fault
    THEN /\ resp' = Json([error |-> "delete failed"])
         /\ UNCHANGED storeVars
    ELSE /\ profiles' = {p \in profiles : ~Eq(p.id, userId)}
         /\ schedules' = {s \in schedules : ~Eq(s.user_id, userId)}
         /\ resp' = Success
         /\ UNCHANGED <<reports, invites>>

\* intent === "delete"; fault: the delete reports an error.
DeleteIntent(fd, fault) ==
    LET userId == IF "user_id" \in DOMAIN fd THEN fd.user_id ELSE Null IN
    IF fault
    THEN /\ resp' = Json([error |-> "delete failed"])
         /\ UNCHANGED storeVars
    ELSE /\ profiles' = {p \in profiles : ~Eq(p.id, userId)}
         /\ resp' = Success
         /\ UNCHANGED <<schedules, reports, invites>>

\* Mutant: the Members action without the admin check.
MembersActionNoGate(caller, fd, fault) ==
    /\ req' = Request("members", "action", caller, fd, fault)
    /\ IF FormGet(fd, "intent") = <<"invite">> THEN InviteIntent(fd, fault)
       ELSE IF FormGet(fd, "intent") = <<"delete">> THEN DeleteIntent(fd, fault)
       ELSE /\ resp' = Success
            /\ UNCHANGED storeVars

\* The Members route's action.
MembersAction(caller, fd, fault) ==
    /\ req' = Request("members", "action", caller, fd, fault)
    /\ IF NotAdmin(ProfileOf(UserId(caller)))
       THEN /\ resp' = Json([error |-> "admin only"])
            /\ UNCHANGED storeVars
       ELSE IF FormGet(fd, "intent") = <<"invite">> THEN InviteIntent(fd, fault)
       ELSE IF FormGet(fd, "intent") = <<"delete">> THEN DeleteIntent(fd, fault)
       ELSE /\ resp' = Success
            /\ UNCHANGED storeVars

CreatedAtKey(p) == p.created_at

\* The Members route's loader.
MembersLoader(caller) ==
    /\ req' = Request("members", "loader", caller, <<>>, FALSE)
    /\ IF NotAdmin(ProfileOf(UserId(caller)))
       THEN resp' = Thrown("admin only")
       ELSE \E data \in OrderBy(profiles, [p \in profiles |-> CreatedAtKey(p)]) :
               resp' = Json([members |-> data])
    /\ UNCHANGED storeVars

(***************************************************************************)
(* Inputs: the requests the model submits.                                 *)
(***************************************************************************)
Without(fd, f) == [k \in DOMAIN fd \ {f} |-> fd[k]]
With(fd, f, v) == [k \in DOMAIN fd \cup {f} |-> IF k = f THEN v ELSE fd[k]]

ScheduleStarts == {<<2024, 12, 2, 540>>, <<2024, 12, 1, 540>>}

ValidCreate(st) ==
    [intent |-> "create", start_time |-> st,
     end_time |-> <<st[1], st[2], st[3], 1020>>,
     location |-> "Office", description |-> "Work"]

SampleCreate == ValidCreate(<<2024, 12, 2, 540>>)

ValidCreates == {ValidCreate(st) : st \in ScheduleStarts}

InvalidCreates ==
    {Without(SampleCreate, f) :
        f \in {"start_time", "end_time", "location", "description"}}
    \cup {With(SampleCreate, f, "") : f \in {"location", "description"}}
    \cup {[intent |-> "create"]}

ReportTimes ==
    {[actual_start_time |-> <<2024, 11, 29, 540>>,
      actual_end_time |-> <<2024, 11, 29, 1020>>, break_time |-> 60],
     [actual_start_time |-> <<2024, 11, 29, 600>>,
      actual_end_time |-> <<2024, 11, 29, 750>>, break_time |-> 0],
     [actual_start_time |-> <<2024, 12, 2, 540>>,
      actual_end_time |-> <<2024, 12, 2, 570>>, break_time |-> 60]}

ValidReport(t) ==
    [intent |-> "report", actual_start_time |-> t.actual_start_time,
     actual_end_time |-> t.actual_end_time, break_time |-> t.break_time,
     actual_description |-> "Done", reflection |-> "Fine"]

SampleReport ==
    With(ValidReport(CHOOSE t \in ReportTimes : t.break_time = 0), "schedule_id", 1)

\* A valid report form carries the id of a schedule of the store, as the
\* hidden schedule_id input of the report dialog does.
ValidReports ==
    {With(ValidReport(t), "schedule_id", s.id) : t \in ReportTimes, s \in schedules}

InvalidReports ==
    {Without(SampleReport, f) :
        f \in {"actual_start_time", "actual_end_time", "break_time",
               "actual_description", "reflection"}}
    \cup {With(SampleReport, f, "") : f \in {"actual_description", "reflection"}}

OtherForms == {<<>>, [intent |-> "edit"]}

Submission(caller, fd) == [caller |-> caller, fd |-> fd]

\* Every caller submits the valid forms; one caller submits the others, a
\* form of the Members route among them.
ScheduleSubmissions ==
    {Submission(c, fd) : c \in Callers, fd \in ValidCreates \cup ValidReports}
    \cup {Submission(<<"u2">>, fd) :
            fd \in InvalidCreates \cup InvalidReports \cup OtherForms
                    \cup {[intent |-> "delete", user_id |-> "u2"]}}

GoodEmail == <<"a", "@", "b", ".", "c", "o">>
BadEmails == {<<>>, <<"a", "@", "b">>, <<"a", ".", "@", "b", ".", "c", "o">>}

SampleInvite == [intent |-> "invite", email |-> GoodEmail, full_name |-> "Ann"]

InvalidInvites ==
    {Without(SampleInvite, f) : f \in {"email", "full_name"}}
    \cup {With(SampleInvite, "email", e) : e \in BadEmails}
    \cup {With(SampleInvite, "full_name", "")}

DeleteForms == {[intent |-> "delete", user_id |-> "u2"], [intent |-> "delete"]}

\* Every caller submits the valid forms and one invalid form; the admin
\* submits the others, a form of the Schedule route among them.
MembersSubmissions ==
    {Submission(c, fd) :
        c \in Callers,
        fd \in {SampleInvite, Without(SampleInvite, "email")} \cup DeleteForms}
    \cup {Submission(<<"u1">>, fd) :
            fd \in InvalidInvites \cup OtherForms \cup {SampleCreate}}

Queries ==
    {<<>>, [month |-> 11], [year |-> 2024, month |-> 12],
     [year |-> 2024, month |-> 11], [year |-> 2025, month |-> 1]}

Todays == {<<2024, 12>>}

\* The store or the identity provider can fail only a call that is made; on
\* the Schedule route the failures are sampled for one caller.
ReachesStore(route, caller, fd) ==
    \/ /\ route = "schedule"
       /\ caller = <<"u2">>
       /\ \/ FormGet(fd, "intent") = <<"create">> /\ scheduleSchema(fd) = {}
          \/ FormGet(fd, "intent") = <<"report">> /\ reportSchema(fd) = {}
    \/ /\ route = "members"
       /\ ~NotAdmin(ProfileOf(UserId(caller)))
       /\ \/ FormGet(fd, "intent") = <<"invite">> /\ inviteSchema(fd) = {}
          \/ FormGet(fd, "intent") = <<"delete">>

(***************************************************************************)
(* The application with one request served at a time.                      *)
(***************************************************************************)
InitProfiles ==
    {[id |-> "u1", full_name |-> "Admin", email |-> "u1", is_admin |-> TRUE,
      created_at |-> 1],
     [id |-> "u2", full_name |-> "Member", email |-> "u2", is_admin |-> FALSE,
      created_at |-> 2]}

NoRequest == Request("none", "none", NoUser, <<>>, FALSE)
NoResponse == [kind |-> "none", body |-> <<>>]
NoNav == [route |-> "none"]

TabIds == {"A", "B"}
ClosedTab == [state |-> "closed"]
NoTabs == [t \in TabIds |-> ClosedTab]

Init ==
    /\ profiles = InitProfiles
    /\ schedules = {}
    /\ reports = {}
    /\ invites = <<>>
    /\ req = NoRequest
    /\ resp = NoResponse
    /\ nav = NoNav
    /\ tabs = NoTabs

SubmitSchedule ==
    \E sub \in ScheduleSubmissions, fault \in BOOLEAN :
        /\ fault => ReachesStore("schedule", sub.caller, sub.fd)
        /\ ScheduleAction(sub.caller, sub.fd, fault)
        /\ UNCHANGED <<nav, tabs>>

LoadSchedule ==
    \E caller \in Callers :
        /\ ScheduleLoader(caller)
        /\ UNCHANGED <<nav, tabs>>

LoadReports ==
    \E caller \in Callers, query \in Queries, today \in Todays :
        /\ ReportsLoader(caller, query, today)
        /\ UNCHANGED <<nav, tabs>>

SubmitMembers ==
    \E sub \in MembersSubmissions, fault \in BOOLEAN :
        /\ fault => ReachesStore("members", sub.caller, sub.fd)
        /\ MembersAction(sub.caller, sub.fd, fault)
        /\ UNCHANGED <<nav, tabs>>

LoadMembers ==
    \E caller \in Callers :
        /\ MembersLoader(caller)
        /\ UNCHANGED <<nav, tabs>>

Next == SubmitSchedule \/ LoadSchedule \/ LoadReports \/ SubmitMembers \/ LoadMembers

Spec == Init /\ [][Next]_vars

(***************************************************************************)
(* The app shell: a document request runs the shell loader and the loader  *)
(* of the child route side by side, in either order.                       *)
(***************************************************************************)
Redirect(to) == [kind |-> "redirect", body |-> [location |-> to]]

\* Mutant: the shell loader without the redirect of a missing session.
AppLoaderNoRedirect(session) ==
    /\ req' = Request("shell", "loader", session, <<>>, FALSE)
    /\ LET profile == ProfileOf(UserId(session))
       IN resp' = Json([user |-> session,
                        isAdmin |-> IF profile = <<>> THEN <<>>
                                    ELSE <<profile[1].is_admin>>])
    /\ UNCHANGED storeVars

\* The shell's loader; session: what getSession gives.
AppLoader(session) ==
    /\ req' = Request("shell", "loader", session, <<>>, FALSE)
    /\ IF session = NoUser
       THEN resp' = Redirect("/login")
       ELSE LET profile == ProfileOf(UserId(session))
            IN resp' = Json([user |-> session,
                             isAdmin |-> IF profile = <<>> THEN <<>>
                                         ELSE <<profile[1].is_admin>>])
    /\ UNCHANGED storeVars

\* What the Remix runtime answers a document request with once the loaders
\* of the matched routes have settled: a redirect returned by a loader, the
\* parent's first; else the error page for a thrown error; else the page.
DocumentResponse(shell, child) ==
    IF shell.kind = "redirect" THEN shell
    ELSE IF child.kind = "redirect" THEN child
    ELSE IF shell.kind = "throw" \/ child.kind = "throw"
    THEN [kind |-> "error", body |-> <<>>]
    ELSE [kind |-> "page", body |-> <<>>]

Routes == {"schedule", "reports", "members"}

\* getSession reads the session of the request; getUser gives its user, or
\* none when the identity provider does not accept the session.
Credentials ==
    {[session |-> NoUser, user |-> NoUser]}
    \cup {[session |-> <<u>>, user |-> <<u>>] : u \in UserIds}
    \cup {[session |-> <<u>>, user |-> NoUser] : u \in UserIds}

Pending == [kind |-> "pending", body |-> <<>>]

Navigate ==
    \E route \in Routes, cred \in Credentials :
        /\ IF nav.route = "none" THEN TRUE ELSE nav.outcome # Pending
        /\ nav' = [route |-> route, session |-> cred.session, user |-> cred.user,
                   shell |-> Pending, child |-> Pending, outcome |-> Pending]
        /\ UNCHANGED <<storeVars, req, resp, tabs>>

RunShellLoader ==
    /\ nav.route # "none" /\ nav.shell = Pending
    /\ AppLoader(nav.session)
    /\ nav' = [nav EXCEPT !.shell = resp']
    /\ UNCHANGED tabs

RunChildLoader ==
    /\ nav.route # "none" /\ nav.child = Pending
    /\ \/ nav.route = "schedule" /\ ScheduleLoader(nav.user)
       \/ nav.route = "reports" /\ \E query \in Queries, today \in Todays :
                                      ReportsLoader(nav.user, query, today)
       \/ nav.route = "members" /\ MembersLoader(nav.user)
    /\ nav' = [nav EXCEPT !.child = resp']
    /\ UNCHANGED tabs

Respond ==
    /\ nav.route # "none" /\ nav.outcome = Pending
    /\ nav.shell # Pending /\ nav.child # Pending
    /\ nav' = [nav EXCEPT !.outcome = DocumentResponse(nav.shell, nav.child)]
    /\ UNCHANGED <<storeVars, req, resp, tabs>>

\* A member may have been removed before the request.
InitShell ==
    /\ profiles \in {InitProfiles, {p \in InitProfiles : p.id # "u2"}}
    /\ schedules = {}
    /\ reports = {}
    /\ invites = <<>>
    /\ req = NoRequest
    /\ resp = NoResponse
    /\ nav = NoNav
    /\ tabs = NoTabs

NextShell == Navigate \/ RunShellLoader \/ RunChildLoader \/ Respond

SpecShell == InitShell /\ [][NextShell]_vars

(***************************************************************************)
(* Two browser tabs on the Schedule page: a report is submitted from the   *)
(* dialog of a rendered page and served later, while the other tab may     *)
(* have submitted too.                                                     *)
(***************************************************************************)
\* isAfter(now, parseISO(schedule.end_time)) && !schedule.reports?.[0]
ReportOffered(schedule, now) ==
    Minutes(now) > Minutes(schedule.end_time) /\ schedule.reports = {}

\* The schedules of a rendered page that show the report button.
Offered(data, now) ==
    {data[i].id : i \in {k \in DOMAIN data : ReportOffered(data[k], now)}}

Nows == {<<2024, 12, 1, 600>>, <<2024, 12, 3, 0>>}

CreateFromTab ==
    \E fd \in ValidCreates :
        /\ ScheduleAction(<<"u2">>, fd, FALSE)
        /\ UNCHANGED <<nav, tabs>>

\* The tab loads the Schedule page and renders it at time now.
OpenSchedulePage ==
    \E t \in TabIds, now \in Nows :
        /\ tabs[t].state # "submitting"
        /\ ScheduleLoader(<<"u2">>)
        /\ tabs' = [tabs EXCEPT ![t] =
                      [state |-> "viewing", now |-> now,
                       offered |-> Offered(resp'.body.schedules, now)]]
        /\ UNCHANGED nav

\* The user fills the report dialog of an offered schedule and submits it.
SubmitReportDialog ==
    \E t \in TabIds, times \in {x \in ReportTimes : x.break_time = 0} :
        /\ tabs[t].state \in {"viewing", "served"}
        /\ \E sid \in tabs[t].offered :
              tabs' = [u \in TabIds |->
                         IF u = t
                         THEN [state |-> "submitting", now |-> tabs[t].now,
                               offered |-> tabs[t].offered,
                               sent |-> With(ValidReport(times), "schedule_id", sid),
                               overlapped |-> \E o \in TabIds : tabs[o].state = "submitting"]
                         ELSE IF tabs[u].state = "submitting"
                         THEN [tabs[u] EXCEPT !.overlapped = TRUE]
                         ELSE tabs[u]]
        /\ UNCHANGED <<storeVars, req, resp, nav>>

\* The action serves the submission of a tab; the page of the tab is then
\* loaded again and rendered.
ServeReport ==
    \E t \in TabIds, fault \in BOOLEAN :
        /\ tabs[t].state = "submitting"
        /\ ScheduleAction(<<"u2">>, tabs[t].sent, fault)
        /\ \E data \in ScheduleReadOf(schedules', reports', "u2") :
              tabs' = [tabs EXCEPT ![t] =
                         [state |-> "served", now |-> tabs[t].now,
                          offered |-> Offered(data, tabs[t].now),
                          sent |-> tabs[t].sent,
                          overlapped |-> tabs[t].overlapped,
                          result |-> resp']]
        /\ UNCHANGED nav

NextRace == CreateFromTab \/ OpenSchedulePage \/ SubmitReportDialog \/ ServeReport

SpecRace == Init /\ [][NextRace]_vars

(***************************************************************************)
(* Direct requests: a client posts the report form straight to the action, *)
(* without the button of the page: any caller, for any stored schedule, at *)
(* any time of the client's clock.                                         *)
(***************************************************************************)
PostReportDirectly ==
    \E t \in TabIds, caller \in Callers, now \in Nows, fd \in ValidReports,
       fault \in BOOLEAN :
        /\ ScheduleAction(caller, fd, fault)
        /\ tabs' = [tabs EXCEPT ![t] =
                      [state |-> "posted", now |-> now, sent |-> fd,
                       result |-> resp']]
        /\ UNCHANGED nav

NextDirect == CreateFromTab \/ PostReportDirectly

SpecDirect == Init /\ [][NextDirect]_vars

(***************************************************************************)
(* Rendering of worked minutes on the Reports page, as hours and minutes.  *)
(***************************************************************************)
\* Math.floor(t / 60)
renderHours(t) == t \div 60

\* t % 60 : the remainder of JavaScript, which has the sign of t.
renderMinutes(t) == IF t >= 0 THEN t % 60 ELSE -((-t) % 60)

Rendered(part, t) ==
    [kind |-> "rendered",
     body |-> [part |-> part, hours |-> renderHours(t), minutes |-> renderMinutes(t)]]

\* The total of a user's group is rendered.
RenderTotal ==
    /\ req.op = "render" /\ resp.kind = "none"
    /\ resp' = Rendered("total", req.fd.minutes)
    /\ UNCHANGED <<storeVars, req, nav, tabs>>

\* The worked minutes of one row are rendered.
RenderRow ==
    /\ req.op = "render" /\ resp.kind = "none"
    /\ resp' = Rendered("row", req.fd.minutes)
    /\ UNCHANGED <<storeVars, req, nav, tabs>>

InitRender ==
    /\ profiles = InitProfiles
    /\ schedules = {}
    /\ reports = {}
    /\ invites = <<>>
    /\ \E t \in (-MaxMinutes)..MaxMinutes :
          req = Request("reports", "render", NoUser, [minutes |-> t], FALSE)
    /\ resp = NoResponse
    /\ nav = NoNav
    /\ tabs = NoTabs

NextRender == RenderTotal \/ RenderRow

SpecRender == InitRender /\ [][NextRender]_vars

(***************************************************************************)
(* Properties.                                                             *)
(***************************************************************************)
Intent(r) == FormGet(r.fd, "intent")

IsAdminIn(profileRows, caller) ==
    \E p \in profileRows : caller = <<p.id>> /\ p.is_admin

\* ts1 is before ts2, field by field.
Before(ts1, ts2) ==
    \E k \in 1..4 : ts1[k] < ts2[k] /\ \A j \in 1..(k - 1) : ts1[j] = ts2[j]

ValidCreatePayload(fd) ==
    /\ {"start_time", "end_time", "location", "description"} \subseteq DOMAIN fd
    /\ fd.location # "" /\ fd.description # ""

ValidReportPayload(fd) ==
    /\ {"actual_start_time", "actual_end_time", "break_time",
         "actual_description", "reflection"} \subseteq DOMAIN fd
    /\ fd.actual_description # "" /\ fd.reflection # ""

ValidInvitePayload(fd) ==
    /\ {"email", "full_name"} \subseteq DOMAIN fd
    /\ fd.full_name # "" /\ fd.email \notin BadEmails

\* C1: a valid 'create' submission whose insert succeeds adds exactly one
\* Schedule row, holding the payload and owned by the submitting user; from
\* then on every schedule read of that user contains the row exactly once and
\* no read of another user contains it.
C1_CreatePersistsForOwner ==
    [][(/\ req'.route = "schedule" /\ req'.op = "action"
        /\ Intent(req') = <<"create">>
        /\ ValidCreatePayload(req'.fd)
        /\ ~req'.fault)
       => /\ schedules \subseteq schedules'
          /\ Cardinality(schedules') = Cardinality(schedules) + 1
          /\ \A row \in schedules' \ schedules :
                /\ row.user_id = UserId(req'.caller)
                /\ row.start_time = req'.fd.start_time
                /\ row.end_time = req'.fd.end_time
                /\ row.location = req'.fd.location
                /\ row.description = req'.fd.description
                /\ \A other \in schedules : other.id # row.id
                /\ \A u \in UserIds :
                     \A data \in ScheduleReadOf(schedules', reports', u) :
                        Cardinality({i \in DOMAIN data : data[i].id = row.id})
                            = IF req'.caller = <<u>> THEN 1 ELSE 0]_vars

\* C1 witness: u2 has just created a schedule next to one of u1.
C1_Witness ==
    /\ req.route = "schedule" /\ req.op = "action"
    /\ Intent(req) = <<"create">> /\ req.caller = <<"u2">>
    /\ IsSuccess(resp)
    /\ \E a, b \in schedules :
          /\ a.id = Cardinality(schedules) /\ a.user_id = "u2"
          /\ b.user_id = "u1"

\* C2 (as claimed): the Reports read selects exactly the reports whose
\* actual_start_time lies in [year-month-01, first day of the next calendar
\* month), the next month of December being January of the next year.
C2_MonthWindow ==
    (req.route = "reports" /\ req.op = "loader" /\ resp.kind = "json")
    => LET y == resp.body.year
           m == resp.body.month
           lo == <<y, m, 1, 0>>
           hi == IF m = 12 THEN <<y + 1, 1, 1, 0>> ELSE <<y, m + 1, 1, 0>>
           data == resp.body.reports
       IN {data[i].id : i \in DOMAIN data}
            = {r.id : r \in {x \in reports :
                        /\ ~Before(x.actual_start_time, lo)
                        /\ Before(x.actual_start_time, hi)}}

\* C3 (as claimed): the Reports and Members loaders throw for a caller that is
\* no admin and return no rows; for an admin the Members loader returns every
\* Profile row and the Reports loader every report of the selected month.
C3_AdminOnlyReads ==
    (req.op = "loader" /\ req.route \in {"reports", "members"})
    => IF ~IsAdminIn(profiles, req.caller)
       THEN resp.kind = "throw"
       ELSE /\ resp.kind = "json"
            /\ req.route = "members"
                 => {resp.body.members[i] : i \in DOMAIN resp.body.members} = profiles
            /\ req.route = "reports"
                 => LET data == resp.body.reports IN
                    {data[i].id : i \in DOMAIN data}
                      = {r.id : r \in {x \in reports :
                            /\ x.actual_start_time[1] = resp.body.year
                            /\ x.actual_start_time[2] = resp.body.month}}

\* C5: a Members action of a caller whose profile is missing or is no admin
\* returns an error value, makes no invitation call and deletes no Profile
\* row, whatever the intent.
C5_MembersWriteGated ==
    [][(/\ req'.route = "members" /\ req'.op = "action"
        /\ ~IsAdminIn(profiles, req'.caller))
       => /\ IsError(resp')
          /\ invites' = invites
          /\ profiles' = profiles
          /\ schedules' = schedules /\ reports' = reports]_vars

\* C5 witness: the member u2 has submitted 'delete' for a stored profile.
C5_Witness ==
    /\ req.route = "members" /\ req.op = "action"
    /\ req.caller = <<"u2">>
    /\ Intent(req) = <<"delete">> /\ FormGet(req.fd, "user_id") = <<"u2">>
    /\ \E p \in profiles : p.id = "u2" /\ ~p.is_admin
    /\ IsError(resp)

InvalidPayload(r) ==
    /\ r.op = "action"
    /\ \/ r.route = "schedule" /\ Intent(r) = <<"create">> /\ ~ValidCreatePayload(r.fd)
       \/ r.route = "schedule" /\ Intent(r) = <<"report">> /\ ~ValidReportPayload(r.fd)
       \/ r.route = "members" /\ Intent(r) = <<"invite">> /\ ~ValidInvitePayload(r.fd)

\* C6 (as claimed): a 'create', 'report' or 'invite' payload that fails
\* validation returns field-level errors and changes nothing in the store.
C6_InvalidReturnsFieldErrors ==
    [][InvalidPayload(req') => (IsFieldErrors(resp') /\ UNCHANGED storeVars)]_vars

\* C6 (amended): such a payload changes nothing in the store and makes no
\* invitation call; it returns field-level errors naming a field, except that
\* an 'invite' of a caller who is no admin returns the admin error instead.
C6_InvalidChangesNothing ==
    [][InvalidPayload(req')
       => /\ UNCHANGED storeVars
          /\ IF req'.route = "members" /\ ~IsAdminIn(profiles, req'.caller)
             THEN IsError(resp')
             ELSE IsFieldErrors(resp') /\ resp'.body.errors # {}]_vars

\* C6 witness: the admin has submitted an 'invite' with a malformed email.
C6_Witness ==
    /\ req.route = "members" /\ req.op = "action"
    /\ Intent(req) = <<"invite">>
    /\ FormGet(req.fd, "email") = <<<<"a", "@", "b">>>>
    /\ IsAdminIn(profiles, req.caller)
    /\ IsFieldErrors(resp) /\ resp.body.errors = {"email"}

RECURSIVE SumWorkMinutes(_, _)
SumWorkMinutes(rows, i) ==
    IF i > Len(rows) THEN 0
    ELSE (Minutes(rows[i].actual_end_time) - Minutes(rows[i].actual_start_time))
            - rows[i].break_time + SumWorkMinutes(rows, i + 1)

\* C7 (as claimed): the aggregation puts every fetched report in exactly one
\* group, the group of its schedule's user_id, and each group's
\* totalWorkMinutes is the sum of its reports' worked minutes.
C7_Aggregation ==
    (req.route = "reports" /\ req.op = "loader" /\ resp.kind = "json")
    => LET data == resp.body.reports
           groups == resp.page.groups
       IN /\ ~resp.page.crashed
          /\ \A i \in DOMAIN data :
                /\ data[i].schedules # <<>>
                /\ \A u \in DOMAIN groups :
                     Cardinality({k \in DOMAIN groups[u].reports :
                                    groups[u].reports[k].id = data[i].id})
                        = IF u = data[i].schedules[1].user_id THEN 1 ELSE 0
                /\ data[i].schedules[1].user_id \in DOMAIN groups
          /\ \A u \in DOMAIN groups :
                groups[u].totalWorkMinutes = SumWorkMinutes(groups[u].reports, 1)

\* C8 (as claimed): each Schedule has at most one Report.
C8_AtMostOneReport ==
    \A s \in schedules : Cardinality({r \in reports : r.schedule_id = s.id}) <= 1

\* C10: the schedule read of a caller returns exactly the stored Schedules
\* whose user_id is the caller's id, each once and with exactly its reports
\* attached, in ascending start_time order, and changes no stored record.
C10_ScheduleReadOwnOrdered ==
    [][(req'.route = "schedule" /\ req'.op = "loader")
       => /\ UNCHANGED storeVars
          /\ resp'.kind = "json"
          /\ LET data == resp'.body.schedules
                 own == {s \in schedules :
                            req'.caller # NoUser /\ s.user_id = req'.caller[1]}
             IN /\ Len(data) = Cardinality(own)
                /\ \A s \in own : \E i \in DOMAIN data :
                      /\ data[i].id = s.id /\ data[i].user_id = s.user_id
                      /\ data[i].start_time = s.start_time
                      /\ data[i].end_time = s.end_time
                      /\ data[i].location = s.location
                      /\ data[i].description = s.description
                      /\ data[i].reports = {r \in reports : r.schedule_id = s.id}
                /\ \A i, j \in DOMAIN data :
                      i < j => ~Before(data[j].start_time, data[i].start_time)]_vars

\* C10 witness: u2 has read two schedules, the later created one first, one
\* of them with a report.
C10_Witness ==
    /\ req.route = "schedule" /\ req.op = "loader" /\ req.caller = <<"u2">>
    /\ resp.kind = "json"
    /\ Len(resp.body.schedules) = 2
    /\ resp.body.schedules[1].id > resp.body.schedules[2].id
    /\ \E i \in 1..2 : resp.body.schedules[i].reports # {}

\* C4: a document request without a session, to any route under the app
\* shell, is answered with the redirect to /login and never with an error,
\* whichever of the two loaders ran first.
C4_NoSessionRedirects ==
    (nav.route # "none" /\ nav.session = NoUser /\ nav.outcome # Pending)
    => (nav.outcome = Redirect("/login") /\ nav.outcome.kind # "error")

\* C4 witness: a request without a session to an admin route was answered
\* after the child loader, which threw, had finished before the shell loader.
C4_Witness ==
    /\ nav.route = "reports" /\ nav.session = NoUser
    /\ nav.child.kind = "throw"
    /\ nav.outcome = Redirect("/login")
    /\ req.route = "shell"

\* C9: a valid 'report' submission whose insert reports no error is accepted
\* and adds one report for the submitted schedule, whatever reports the
\* schedule has already and whatever other submission is in flight.
C9_SecondReportInserted ==
    [][\A t \in TabIds :
         (/\ tabs[t].state = "submitting" /\ tabs'[t].state = "served"
          /\ ValidReportPayload(tabs[t].sent)
          /\ ~req'.fault)
         => /\ IsSuccess(resp')
            /\ reports \subseteq reports'
            /\ Cardinality(reports') = Cardinality(reports) + 1
            /\ \A row \in reports' \ reports :
                  row.schedule_id = tabs[t].sent.schedule_id]_vars

\* C9 witness: two submissions for one schedule, each sent from a page that
\* showed the schedule without a report and in flight together, were both
\* accepted, and the schedule has two reports.
C9_Witness ==
    /\ \A t \in TabIds :
          /\ tabs[t].state = "served"
          /\ tabs[t].overlapped
          /\ IsSuccess(tabs[t].result)
    /\ tabs["A"].sent.schedule_id = tabs["B"].sent.schedule_id
    /\ Cardinality({r \in reports : r.schedule_id = tabs["A"].sent.schedule_id}) = 2

\* C11: a 'delete' submission of an admin with user_id = p whose delete
\* reports no error removes exactly the Profile row with id p: every other
\* Profile row, every Schedule, every Report and the invitations are
\* unchanged, and every schedule read of p gives what it gave before.
C11_DeleteRemovesOnlyProfile ==
    [][(/\ req'.route = "members" /\ req'.op = "action"
        /\ Intent(req') = <<"delete">>
        /\ "user_id" \in DOMAIN req'.fd
        /\ IsAdminIn(profiles, req'.caller)
        /\ ~req'.fault)
       => /\ IsSuccess(resp')
          /\ profiles' = {p \in profiles : p.id # req'.fd.user_id}
          /\ schedules' = schedules /\ reports' = reports /\ invites' = invites
          /\ ScheduleReadOf(schedules', reports', req'.fd.user_id)
                = ScheduleReadOf(schedules, reports, req'.fd.user_id)]_vars

\* C11 witness: the admin has deleted the profile of u2, whose schedule and
\* its report are still stored.
C11_Witness ==
    /\ req.route = "members" /\ req.op = "action"
    /\ Intent(req) = <<"delete">> /\ FormGet(req.fd, "user_id") = <<"u2">>
    /\ req.caller = <<"u1">> /\ IsSuccess(resp)
    /\ \A p \in profiles : p.id # "u2"
    /\ \E p \in profiles : p.id = "u1"
    /\ \E s \in schedules :
          /\ s.user_id = "u2"
          /\ \E r \in reports : r.schedule_id = s.id
          /\ \E data \in ScheduleReadOf(schedules, reports, "u2") :
                \E i \in DOMAIN data : data[i].id = s.id /\ data[i].reports # {}

\* C12: every 'report' submission with a validated payload whose insert
\* reports no error is answered with success and inserts one Report holding
\* the payload and linked to the submitted schedule_id, whoever the caller is
\* and whatever the time is: the action reads neither the owner nor the
\* end_time of the schedule.
C12_ReportInsertUnchecked ==
    [][(/\ req'.route = "schedule" /\ req'.op = "action"
        /\ Intent(req') = <<"report">>
        /\ ValidReportPayload(req'.fd)
        /\ "schedule_id" \in DOMAIN req'.fd
        /\ ~req'.fault)
       => /\ IsSuccess(resp')
          /\ schedules' = schedules /\ profiles' = profiles
          /\ reports \subseteq reports'
          /\ Cardinality(reports') = Cardinality(reports) + 1
          /\ \A row \in reports' \ reports :
                /\ row.schedule_id = req'.fd.schedule_id
                /\ row.actual_start_time = req'.fd.actual_start_time
                /\ row.actual_end_time = req'.fd.actual_end_time
                /\ row.break_time = req'.fd.break_time
                /\ row.actual_description = req'.fd.actual_description
                /\ row.reflection = req'.fd.reflection]_vars

\* C12 witness: u1 has posted, before the end_time of a schedule of u2, a
\* report for that schedule, and the report is stored.
C12_Witness ==
    /\ req.route = "schedule" /\ req.op = "action"
    /\ Intent(req) = <<"report">> /\ req.caller = <<"u1">>
    /\ IsSuccess(resp)
    /\ \E t \in TabIds, s \in schedules :
          /\ tabs[t].state = "posted"
          /\ tabs[t].sent = req.fd /\ tabs[t].result = resp
          /\ s.id = req.fd.schedule_id
          /\ s.user_id = "u2"
          /\ Minutes(tabs[t].now) < Minutes(s.end_time)
          /\ \E r \in reports :
                r.id = Cardinality(reports) /\ r.schedule_id = s.id

\* C13 (as claimed): for every integer number t of worked minutes, negative
\* ones included, of a row or of a user's total, the rendered hours H and
\* minutes M satisfy 0 <= M < 60 and 60 * H + M = t, that is H = floor(t / 60)
\* and M = t mod 60.
C13_HoursAndMinutes ==
    resp.kind = "rendered"
    => LET t == req.fd.minutes
           H == resp.body.hours
           M == resp.body.minutes
       IN /\ 0 <= M /\ M < 60
          /\ 60 * H + M = t

\* C14: when the insert of 'create' or 'report', the delete of 'delete' or
\* the invitation call of 'invite' reports an error, the action returns an
\* error value and not {success: true}, and the store and the invitations
\* are as before the request (no further attempt is made); for these intents
\* {success: true} is returned only when the mutation reported no error.
C14_FailureIsTerminal ==
    [][(req'.op = "action"
        => /\ req'.fault
              => /\ IsError(resp') /\ ~IsSuccess(resp')
                 /\ UNCHANGED storeVars
           /\ (/\ IsSuccess(resp')
               /\ \/ req'.route = "schedule"
                       /\ Intent(req') \in {<<"create">>, <<"report">>}
                  \/ req'.route = "members"
                       /\ Intent(req') \in {<<"invite">>, <<"delete">>})
              => ~req'.fault)]_vars

\* C14 witness: the insert of a valid 'create' has reported an error while a
\* schedule was stored; the store still holds that schedule alone.
C14_Witness ==
    /\ req.route = "schedule" /\ req.op = "action"
    /\ Intent(req) = <<"create">> /\ ValidCreatePayload(req.fd)
    /\ req.fault
    /\ IsError(resp)
    /\ Cardinality(schedules) = 1 /\ reports = {}

\* C15 (as claimed): whenever the Reports loader has returned reports whose
\* schedules are stored with an owner id, the aggregation completes, also
\* when the profile of an owner was deleted, and every fetched report is in
\* the group of its schedule's owner.
C15_AggregationCompletes ==
    (/\ req.route = "reports" /\ req.op = "loader" /\ resp.kind = "json"
     /\ \A i \in DOMAIN resp.body.reports :
           /\ resp.body.reports[i].schedules # <<>>
           /\ resp.body.reports[i].schedules[1].user_id \in UserIds)
    => /\ ~resp.page.crashed
       /\ \A i \in DOMAIN resp.body.reports :
             LET owner == resp.body.reports[i].schedules[1].user_id
             IN /\ owner \in DOMAIN resp.page.groups
                /\ \E k \in DOMAIN resp.page.groups[owner].reports :
                      resp.page.groups[owner].reports[k].id
                        = resp.body.reports[i].id

\* Rows inserted, rows deleted and invitation calls made by a step.
Mutations ==
    Cardinality(schedules' \ schedules) + Cardinality(schedules \ schedules')
    + Cardinality(reports' \ reports) + Cardinality(reports \ reports')
    + Cardinality(profiles' \ profiles) + Cardinality(profiles \ profiles')
    + (IF invites' = invites THEN 0
       ELSE IF Len(invites') = Len(invites) + 1
               /\ SubSeq(invites', 1, Len(invites)) = invites THEN 1 ELSE 2)

UnhandledIntent(r) ==
    /\ r.op = "action"
    /\ \/ r.route = "schedule" /\ Intent(r) \notin {<<"create">>, <<"report">>}
       \/ /\ r.route = "members" /\ Intent(r) \notin {<<"invite">>, <<"delete">>}
          /\ IsAdminIn(profiles, r.caller)

\* C16: a submission whose intent is missing or is not one the route handles
\* (Members route: from an admin) inserts nothing, deletes nothing, makes no
\* invitation call and returns {success: true}; every request makes at most
\* one mutation.
C16_UnhandledIntentIsNoOp ==
    [][/\ UnhandledIntent(req') => (IsSuccess(resp') /\ UNCHANGED storeVars)
       /\ Mutations <= 1]_vars

\* C16 witness: a form of the Members route ('delete' of a stored profile)
\* was sent to the Schedule action while a schedule and a report were
\* stored, and was answered with success.
C16_Witness ==
    /\ req.route = "schedule" /\ req.op = "action"
    /\ Intent(req) = <<"delete">> /\ FormGet(req.fd, "user_id") = <<"u2">>
    /\ IsSuccess(resp)
    /\ \E p \in profiles : p.id = "u2"
    /\ schedules # {} /\ reports # {}

====
